---------------------------- MODULE Spec2Model ----------------------------
(***************************************************************************)
(* KEB web application (src/KEB_webapp.py): the entry store (table keb),   *)
(* the users table, the per-browser Flask session, and the request         *)
(* handlers add_entry, index, plot_chart, plot_subscales, delete_entries,  *)
(* login, register and logout, with check_negative_deviation.              *)
(*                                                                         *)
(* Text is modelled as sequences of one-character strings, so that         *)
(* strptime, strftime, strip, float and SQLite's TEXT comparison act on    *)
(* the characters as the code does.  REAL values are exact rationals       *)
(* [n, d] in lowest terms (the inputs are short decimal numerals, for      *)
(* which the comparison "base - today >= 2" of the floats agrees with the  *)
(* comparison of the exact values).                                        *)
(***************************************************************************)
EXTENDS Integers, Sequences, FiniteSets, TLC

(***************************************************************************)
(* Characters and text                                                     *)
(***************************************************************************)
Digits == <<"0", "1", "2", "3", "4", "5", "6", "7", "8", "9">>

DigitSet == {Digits[i] : i \in 1..10}

IsDigit(c) == c \in DigitSet

DigitVal(c) == (CHOOSE i \in 1..10 : Digits[i] = c) - 1

IsSpace(c) == c = " "

\* The byte value of a character (the collation BINARY of SQLite compares bytes).
Ord(c) ==
    CASE c = " " -> 32
      [] c = "-" -> 45
      [] c = "." -> 46
      [] c = "/" -> 47
      [] IsDigit(c) -> 48 + DigitVal(c)
      [] c = ":" -> 58
      [] c = "T" -> 84
      [] OTHER -> 97

RECURSIVE TextLess(_, _)
\* a < b for two TEXT values: memcmp on the common prefix, then the shorter.
TextLess(a, b) ==
    IF b = <<>> THEN FALSE
    ELSE IF a = <<>> THEN TRUE
    ELSE IF Ord(Head(a)) # Ord(Head(b)) THEN Ord(Head(a)) < Ord(Head(b))
    ELSE TextLess(Tail(a), Tail(b))

TextLeq(a, b) == a = b \/ TextLess(a, b)

RECURSIVE LStrip(_)
LStrip(s) == IF s # <<>> /\ IsSpace(Head(s)) THEN LStrip(Tail(s)) ELSE s

RECURSIVE RStrip(_)
RStrip(s) ==
    IF s # <<>> /\ IsSpace(s[Len(s)]) THEN RStrip(SubSeq(s, 1, Len(s) - 1)) ELSE s

\* str.strip()
Strip(s) == RStrip(LStrip(s))

RECURSIVE NumVal(_)
\* int() of a run of digits (a leading space, as %d admits, counts for nothing).
NumVal(t) ==
    IF t = <<>> THEN 0
    ELSE IF IsSpace(t[Len(t)]) THEN 0
    ELSE 10 * NumVal(SubSeq(t, 1, Len(t) - 1)) + DigitVal(t[Len(t)])

AllDigits(t) == \A i \in 1..Len(t) : IsDigit(t[i])

Pad2(n) == <<Digits[(n \div 10) + 1], Digits[(n % 10) + 1]>>

Pad4(n) == Pad2(n \div 100) \o Pad2(n % 100)

(***************************************************************************)
(* The calendar of datetime.date                                           *)
(***************************************************************************)
IsLeap(y) == (y % 4 = 0) /\ ((y % 100 # 0) \/ (y % 400 = 0))

DaysInMonth(y, m) ==
    IF m = 2 THEN (IF IsLeap(y) THEN 29 ELSE 28)
    ELSE IF m \in {4, 6, 9, 11} THEN 30 ELSE 31

\* date - timedelta(days=1)
PrevDay(dt) ==
    IF dt.d > 1 THEN [y |-> dt.y, m |-> dt.m, d |-> dt.d - 1]
    ELSE IF dt.m > 1
         THEN [y |-> dt.y, m |-> dt.m - 1, d |-> DaysInMonth(dt.y, dt.m - 1)]
         ELSE [y |-> dt.y - 1, m |-> 12, d |-> 31]

RECURSIVE MinusDays(_, _)
\* date - timedelta(days=n)
MinusDays(dt, n) == IF n = 0 THEN dt ELSE MinusDays(PrevDay(dt), n - 1)

\* date.strftime("%Y-%m-%d")
StrfDate(dt) == Pad4(dt.y) \o <<"-">> \o Pad2(dt.m) \o <<"-">> \o Pad2(dt.d)

\* time.strftime("%H:%M:%S") of a clock reading [h, mi, s]
StrfTime(t) == Pad2(t.h) \o <<":">> \o Pad2(t.mi) \o <<":">> \o Pad2(t.s)

(***************************************************************************)
(* datetime.strptime(s, "%Y-%m-%d %H:%M:%S")                               *)
(* The format compiles to the regular expression                           *)
(*   (\d\d\d\d)-(1[0-2]|0[1-9]|[1-9])-(3[0-1]|[1-2]\d|0[1-9]|[1-9]| [1-9]) *)
(*   \s+(2[0-3]|[0-1]\d|\d):([0-5]\d|\d):(6[0-1]|[0-5]\d|\d)               *)
(* which must match from the start and leave no text unconverted.          *)
(***************************************************************************)
Nz(c) == IsDigit(c) /\ c # "0"

IsMonthText(t) ==
    \/ Len(t) = 2 /\ t[1] = "1" /\ t[2] \in {"0", "1", "2"}
    \/ Len(t) = 2 /\ t[1] = "0" /\ Nz(t[2])
    \/ Len(t) = 1 /\ Nz(t[1])

IsDayText(t) ==
    \/ Len(t) = 2 /\ t[1] = "3" /\ t[2] \in {"0", "1"}
    \/ Len(t) = 2 /\ t[1] \in {"1", "2"} /\ IsDigit(t[2])
    \/ Len(t) = 2 /\ t[1] = "0" /\ Nz(t[2])
    \/ Len(t) = 1 /\ Nz(t[1])
    \/ Len(t) = 2 /\ t[1] = " " /\ Nz(t[2])

IsHourText(t) ==
    \/ Len(t) = 2 /\ t[1] = "2" /\ t[2] \in {"0", "1", "2", "3"}
    \/ Len(t) = 2 /\ t[1] \in {"0", "1"} /\ IsDigit(t[2])
    \/ Len(t) = 1 /\ IsDigit(t[1])

IsMinuteText(t) ==
    \/ Len(t) = 2 /\ t[1] \in {"0", "1", "2", "3", "4", "5"} /\ IsDigit(t[2])
    \/ Len(t) = 1 /\ IsDigit(t[1])

IsSecondText(t) ==
    \/ Len(t) = 2 /\ t[1] = "6" /\ t[2] \in {"0", "1"}
    \/ IsMinuteText(t)

RECURSIVE SkipBlanks(_, _)
\* Where \s+ stops when it starts at i: the first place from i on that holds no
\* blank (Len(s) + 1 when there is none).
SkipBlanks(s, i) ==
    IF i <= Len(s) /\ IsSpace(s[i]) THEN SkipBlanks(s, i + 1) ELSE i

\* The ways the regular expression matches all of s: the place of the second
\* "-" and the lengths of the day, of the hour and of the minute; ws, hr, c1 and
\* c2 are where the blanks, the hour and the two ":" are.
RegexMatches(s) ==
    LET n == Len(s)
    IN  IF ~(n >= 14 /\ AllDigits(SubSeq(s, 1, 4)) /\ s[5] = "-") THEN {}
        ELSE
        { p \in [dash : {i \in 7..8 : s[i] = "-"}, dl : 1..2, hl : 1..2, ml : 1..2] :
            LET ws == p.dash + p.dl + 1
                hr == SkipBlanks(s, ws)
                c1 == hr + p.hl
                c2 == c1 + p.ml + 1
            IN  /\ c2 < n
                /\ hr > ws
                /\ s[c1] = ":" /\ s[c2] = ":"
                /\ IsMonthText(SubSeq(s, 6, p.dash - 1))
                /\ IsDayText(SubSeq(s, p.dash + 1, ws - 1))
                /\ IsHourText(SubSeq(s, hr, c1 - 1))
                /\ IsMinuteText(SubSeq(s, c1 + 1, c2 - 1))
                /\ IsSecondText(SubSeq(s, c2 + 1, n)) }

ValueError == [ok |-> FALSE]

\* The datetime strptime returns, or ValueError: no match, or a field out of the
\* range the datetime constructor takes (year 0, a day the month has not,
\* second 60 or 61).
strptime(s) ==
    LET ms == RegexMatches(s)
    IN  IF ms = {} THEN ValueError
        ELSE LET p  == CHOOSE q \in ms : TRUE
                 ws == p.dash + p.dl + 1
                 hr == SkipBlanks(s, ws)
                 c1 == hr + p.hl
                 c2 == c1 + p.ml + 1
                 y  == NumVal(SubSeq(s, 1, 4))
                 mo == NumVal(SubSeq(s, 6, p.dash - 1))
                 d  == NumVal(SubSeq(s, p.dash + 1, ws - 1))
                 se == NumVal(SubSeq(s, c2 + 1, Len(s)))
             IN  IF y >= 1 /\ d <= DaysInMonth(y, mo) /\ se <= 59
                 THEN [ok |-> TRUE, y |-> y, m |-> mo, d |-> d,
                       h |-> NumVal(SubSeq(s, hr, c1 - 1)),
                       mi |-> NumVal(SubSeq(s, c1 + 1, c2 - 1)), s |-> se]
                 ELSE ValueError

\* datetime.date()
DateOf(t) == [y |-> t.y, m |-> t.m, d |-> t.d]

(***************************************************************************)
(* REAL values: exact rationals in lowest terms                            *)
(***************************************************************************)
Abs(i) == IF i < 0 THEN -i ELSE i

RECURSIVE Gcd(_, _)
Gcd(a, b) == IF b = 0 THEN a ELSE Gcd(b, a % b)

Rat(n, d) ==
    LET g == Gcd(Abs(n), d) IN [n |-> n \div g, d |-> d \div g]

RAdd(a, b) == Rat(a.n * b.d + b.n * a.d, a.d * b.d)

RSub(a, b) == Rat(a.n * b.d - b.n * a.d, a.d * b.d)

\* a / k for an integer k > 0
RDiv(a, k) == Rat(a.n, a.d * k)

\* a >= k for an integer k
RGeq(a, k) == a.n >= k * a.d

RECURSIVE RSum(_)
\* sum(list)
RSum(l) == IF l = <<>> THEN Rat(0, 1) ELSE RAdd(Head(l), RSum(Tail(l)))

RECURSIVE Pow10(_)
Pow10(k) == IF k = 0 THEN 1 ELSE 10 * Pow10(k - 1)

\* float(text) on decimal numerals: blanks around it stripped, an optional "-",
\* digits, and optionally "." and digits; anything else raises ValueError.
float(text) ==
    LET t    == Strip(text)
        neg  == t # <<>> /\ Head(t) = "-"
        body == IF neg THEN Tail(t) ELSE t
        dots == {i \in 1..Len(body) : body[i] = "."}
        sign == IF neg THEN -1 ELSE 1
    IN  IF dots = {}
        THEN IF body # <<>> /\ AllDigits(body)
             THEN [ok |-> TRUE, v |-> Rat(sign * NumVal(body), 1)]
             ELSE ValueError
        ELSE LET i    == CHOOSE j \in dots : TRUE
                 ip   == SubSeq(body, 1, i - 1)
                 fp   == SubSeq(body, i + 1, Len(body))
             IN  IF Cardinality(dots) = 1 /\ AllDigits(ip) /\ AllDigits(fp)
                    /\ Len(ip) + Len(fp) > 0
                 THEN [ok |-> TRUE,
                       v  |-> Rat(sign * (NumVal(ip) * Pow10(Len(fp)) + NumVal(fp)),
                                  Pow10(Len(fp)))]
                 ELSE ValueError

(***************************************************************************)
(* The table keb and its queries                                           *)
(***************************************************************************)
Items == <<"k_leistung", "m_leistung", "e_ausgeg", "a_erhol",
           "musk_beans", "aktiv_mangel", "e_unausg", "a_beans">>

ItemSet == {Items[i] : i \in 1..8}

RECURSIVE ById(_)
\* The rows of a set in the order a table scan returns them (by rowid).
ById(S) ==
    IF S = {} THEN <<>>
    ELSE LET r == CHOOSE x \in S : \A y \in S : x.id <= y.id
         IN  <<r>> \o ById(S \ {r})

RECURSIVE OrderByDatum(_)
\* ORDER BY datum: ascending by the TEXT comparison, equal datum by rowid.
OrderByDatum(S) ==
    IF S = {} THEN <<>>
    ELSE LET r == CHOOSE x \in S : \A y \in S :
                     \/ TextLess(x.datum, y.datum)
                     \/ x.datum = y.datum /\ x.id <= y.id
         IN  <<r>> \o OrderByDatum(S \ {r})

RECURSIVE Reverse(_)
Reverse(l) == IF l = <<>> THEN <<>> ELSE Reverse(Tail(l)) \o <<Head(l)>>

\* SELECT * FROM keb WHERE user_id = ? ORDER BY datum DESC
SelectEntriesDesc(tbl, uid) ==
    Reverse(OrderByDatum({r \in tbl : r.user_id = uid}))

\* SELECT datum, <items> FROM keb WHERE user_id = ? ORDER BY datum
SelectChartRows(tbl, uid) == OrderByDatum({r \in tbl : r.user_id = uid})

\* SelectWindow with "datum <= ?" for "datum < ?": the row just stored counts.
SelectWindowInclusive(tbl, datum_str, start_str, uid) ==
    ById({r \in tbl : /\ TextLeq(r.datum, datum_str)
                      /\ TextLeq(start_str, r.datum)
                      /\ r.user_id = uid})

\* SelectWindow without "AND user_id = ?": every user's rows count.
SelectWindowAnyUser(tbl, datum_str, start_str, uid) ==
    ById({r \in tbl : /\ TextLess(r.datum, datum_str)
                      /\ TextLeq(start_str, r.datum)})

\* SELECT <items> FROM keb WHERE datum < ? AND datum >= ? AND user_id = ?
SelectWindow(tbl, datum_str, start_str, uid) ==
    ById({r \in tbl : /\ TextLess(r.datum, datum_str)
                      /\ TextLeq(start_str, r.datum)
                      /\ r.user_id = uid})

\* INSERT INTO keb (...) VALUES (...): AUTOINCREMENT gives the id after the
\* largest one ever given.
InsertRow(seq, datum, v, uid) ==
    [id |-> seq + 1, datum |-> datum, v |-> v, user_id |-> uid]

\* The id a TEXT parameter names when compared with the INTEGER column id.
IdOf(text) == IF text # <<>> /\ AllDigits(text) THEN NumVal(text) ELSE 0

\* DeleteRows without "AND user_id = ?": any user's row goes.
DeleteRowsAnyOwner(tbl, ids, uid) ==
    {r \in tbl : ~(\E t \in ids : IdOf(t) = r.id)}

\* for entry_id in ids: DELETE FROM keb WHERE id = ? AND user_id = ?
DeleteRows(tbl, ids, uid) ==
    {r \in tbl : ~(\E t \in ids : IdOf(t) = r.id /\ r.user_id = uid)}

(***************************************************************************)
(* check_negative_deviation                                                *)
(***************************************************************************)
\* (recovery + (6 - strain)) / 2
TodaySubscales(v) ==
    << RDiv(RAdd(v.k_leistung, RSub(Rat(6, 1), v.musk_beans)), 2),
       RDiv(RAdd(v.m_leistung, RSub(Rat(6, 1), v.aktiv_mangel)), 2),
       RDiv(RAdd(v.e_ausgeg, RSub(Rat(6, 1), v.e_unausg)), 2),
       RDiv(RAdd(v.a_erhol, RSub(Rat(6, 1), v.a_beans)), 2) >>

\* The four subscale values of one baseline row (the loop body).
RowSubscales(row) ==
    << RDiv(RAdd(row.v.k_leistung, RSub(Rat(6, 1), row.v.musk_beans)), 2),
       RDiv(RAdd(row.v.m_leistung, RSub(Rat(6, 1), row.v.aktiv_mangel)), 2),
       RDiv(RAdd(row.v.e_ausgeg, RSub(Rat(6, 1), row.v.e_unausg)), 2),
       RDiv(RAdd(row.v.a_erhol, RSub(Rat(6, 1), row.v.a_beans)), 2) >>

\* sum(s_list) / len(s_list) for each of the four lists
Baseline(rows) ==
    [i \in 1..4 |->
        RDiv(RSum([j \in 1..Len(rows) |-> RowSubscales(rows[j])[i]]), Len(rows))]

\* IsDeviation with ">" for ">=".
IsDeviationStrict(base, today_val) ==
    LET diff == RSub(base, today_val) IN diff.n > 2 * diff.d

\* if (base - today_val) >= 2
IsDeviation(base, today_val) == RGeq(RSub(base, today_val), 2)

RECURSIVE Messages(_, _, _)
\* The messages of the subscales from i on, in the order of subscale_names.
Messages(i, baseline, today) ==
    IF i > 4 THEN <<>>
    ELSE (IF IsDeviation(baseline[i], today[i])
          THEN << [subscale |-> i, today |-> today[i], base |-> baseline[i]] >>
          ELSE <<>>) \o Messages(i + 1, baseline, today)

\* The window's two bounds: the datum as given, and the date 7 days before as
\* strftime("%Y-%m-%d") writes it.
StartDate(datum_str) == MinusDays(DateOf(strptime(datum_str)), 7)

\* The rows fetched, the messages and whether a warning is flashed.
check_negative_deviation(tbl, uid, datum_str, v) ==
    LET rows == SelectWindow(tbl, datum_str, StrfDate(StartDate(datum_str)), uid)
    IN  IF rows = <<>>
        THEN [rows |-> rows, messages |-> <<>>, warning |-> FALSE]
        ELSE LET messages == Messages(1, Baseline(rows), TodaySubscales(v))
             IN  [rows |-> rows, messages |-> messages,
                  warning |-> messages # <<>>]

(***************************************************************************)
(* The two chart projections                                               *)
(***************************************************************************)
RECURSIVE Parsed(_)
\* The loop's try/except: a row whose datum strptime refuses is skipped.
Parsed(rows) ==
    IF rows = <<>> THEN <<>>
    ELSE (IF strptime(Head(rows).datum).ok THEN <<Head(rows)>> ELSE <<>>)
         \o Parsed(Tail(rows))

\* plot_chart: the dates and the eight item series.
ItemChart(rows) ==
    LET kept == Parsed(rows)
    IN  [j \in 1..Len(kept) |->
            [dt |-> strptime(kept[j].datum), values |-> kept[j].v]]

\* ChartSubscales with the strain items not inverted.
ChartSubscalesNotInverted(row) ==
    << RDiv(RAdd(row.v.k_leistung, row.v.musk_beans), 2),
       RDiv(RAdd(row.v.m_leistung, row.v.aktiv_mangel), 2),
       RDiv(RAdd(row.v.e_ausgeg, row.v.e_unausg), 2),
       RDiv(RAdd(row.v.a_erhol, row.v.a_beans), 2) >>

\* plot_subscales: s1..s4 of one row.
ChartSubscales(row) ==
    << RDiv(RAdd(row.v.k_leistung, RSub(Rat(6, 1), row.v.musk_beans)), 2),
       RDiv(RAdd(row.v.m_leistung, RSub(Rat(6, 1), row.v.aktiv_mangel)), 2),
       RDiv(RAdd(row.v.e_ausgeg, RSub(Rat(6, 1), row.v.e_unausg)), 2),
       RDiv(RAdd(row.v.a_erhol, RSub(Rat(6, 1), row.v.a_beans)), 2) >>

\* plot_subscales: the dates and the four subscale series.
SubscaleChart(rows) ==
    LET kept == Parsed(rows)
    IN  [j \in 1..Len(kept) |->
            [dt |-> strptime(kept[j].datum), values |-> ChartSubscales(kept[j])]]

(***************************************************************************)
(* State                                                                   *)
(***************************************************************************)
VARIABLES
    keb,        \* the rows of table keb: [id, datum, v, user_id]
    keb_seq,    \* the largest id AUTOINCREMENT has given in keb
    users,      \* the rows of table users: [id, username, password]
    users_seq,  \* the largest id AUTOINCREMENT has given in users
    session,    \* per browser: the Flask session, a map with or without user_id
    resp,       \* the response to the last request, with what the handler did
    solo,       \* the run without the other users: the observed user's requests
    solo_seq,   \*   alone, each delete naming the same entries of the user
    solo_id,    \*   (solo_id: the id in solo of each id given in keb, or 0)
    replay,     \* the run without the other users, the observed user's requests
    replay_seq  \*   replayed as sent

vars == <<keb, keb_seq, users, users_seq, session, resp,
          solo, solo_seq, solo_id, replay, replay_seq>>

(***************************************************************************)
(* Bounds and inputs                                                       *)
(***************************************************************************)
\* No more add requests are sent than this once that many rows were stored:
\* under Spec, under SpecDate and under SpecDev.
MaxEntries == 2
MaxEntriesDate == 2
MaxEntriesDev == 3

\* The browsers.
Clients == {1, 2}

\* The user whose view is compared between the runs with and without the others.
Observed == 1

LoggedIn(c) == "user_id" \in DOMAIN session[c]

EmptySession == [k \in {} |-> 0]

NoForm == [f \in ItemSet \cup {"datum"} |-> <<>>]

NoDeviation == [rows |-> <<>>, messages |-> <<>>, warning |-> FALSE]

\* What a handler answers: the browser and operation, the session's user_id as
\* the request came (0: none), the outcome, the statements run on table keb, and
\* for an add the form sent, the datum stored and the analyzer's result; view
\* is the list or the series handed to the template, ids the ids a delete sent.
Response(c, op, status, db, form, datum, dev, view, ids) ==
    [client |-> c, op |-> op,
     user |-> IF LoggedIn(c) THEN session[c].user_id ELSE 0,
     status |-> status, db |-> db, form |-> form, datum |-> datum,
     dev |-> dev, view |-> view, ids |-> ids]

Plain(c, op, status, db, view) ==
    Response(c, op, status, db, NoForm, <<>>, NoDeviation, view, {})

Init ==
    /\ keb = {} /\ keb_seq = 0
    /\ users = {} /\ users_seq = 0
    /\ session = [c \in Clients |-> EmptySession]
    /\ resp = [client |-> 0, op |-> "none", user |-> 0, status |-> "none",
               db |-> {}, form |-> NoForm, datum |-> <<>>,
               dev |-> NoDeviation, view |-> <<>>, ids |-> {}]
    /\ solo = {} /\ solo_seq = 0 /\ solo_id = <<>>
    /\ replay = {} /\ replay_seq = 0

(***************************************************************************)
(* add_entry (the definition of lines 123-161, which the name is bound to) *)
(***************************************************************************)
\* datum = request.form["datum"].strip(), with the time of day appended to a
\* text of 10 characters.
DatumOf(form, now) ==
    LET datum == Strip(form.datum)
    IN  IF Len(datum) = 10 THEN datum \o <<" ">> \o StrfTime(now) ELSE datum

\* The eight float(request.form[...]) calls.
Floats(form) == [f \in ItemSet |-> float(form[f])]

\* How add_entry's POST branch ends: the datum refused, a value refused, or
\* the row stored.
AddStatus(form, now) ==
    IF ~strptime(DatumOf(form, now)).ok THEN "date_error"
    ELSE IF \E f \in ItemSet : ~Floats(form)[f].ok THEN "value_error"
    ELSE "stored"

\* The row the INSERT writes into a table whose sequence is seq.
NewRow(seq, uid, form, now) ==
    InsertRow(seq, DatumOf(form, now), [f \in ItemSet |-> Floats(form)[f].v], uid)

add_entry(c, method, form, now) ==
    IF ~LoggedIn(c)
    THEN /\ resp' = Plain(c, "add", "redirect_login", {}, <<>>)
         /\ UNCHANGED <<keb, keb_seq, users, users_seq, session,
                        solo, solo_seq, solo_id, replay, replay_seq>>
    ELSE IF method = "GET"
    THEN /\ resp' = Plain(c, "add", "form", {}, <<>>)
         /\ UNCHANGED <<keb, keb_seq, users, users_seq, session,
                        solo, solo_seq, solo_id, replay, replay_seq>>
    ELSE IF AddStatus(form, now) # "stored"
    THEN /\ resp' = Response(c, "add", AddStatus(form, now), {}, form, <<>>,
                             NoDeviation, <<>>, {})
         /\ UNCHANGED <<keb, keb_seq, users, users_seq, session,
                        solo, solo_seq, solo_id, replay, replay_seq>>
    ELSE LET uid == session[c].user_id
             row == NewRow(keb_seq, uid, form, now)
             obs == uid = Observed
         IN  /\ keb' = keb \cup {row}
             /\ keb_seq' = keb_seq + 1
             /\ resp' = Response(c, "add", "stored", {"insert", "select"},
                                 form, row.datum,
                                 check_negative_deviation(keb', uid, row.datum, row.v),
                                 <<>>, {})
             /\ solo' = IF obs THEN solo \cup {[row EXCEPT !.id = solo_seq + 1]}
                        ELSE solo
             /\ solo_seq' = IF obs THEN solo_seq + 1 ELSE solo_seq
             /\ solo_id' = Append(solo_id, IF obs THEN solo_seq + 1 ELSE 0)
             /\ replay' = IF obs THEN replay \cup {[row EXCEPT !.id = replay_seq + 1]}
                          ELSE replay
             /\ replay_seq' = IF obs THEN replay_seq + 1 ELSE replay_seq
             /\ UNCHANGED <<users, users_seq, session>>

(***************************************************************************)
(* index, plot_chart, plot_subscales                                       *)
(***************************************************************************)
\* index with the SELECT run before the session is looked at.
index_select_first(c) ==
    /\ resp' = IF ~LoggedIn(c)
               THEN Plain(c, "index", "redirect_login", {"select"}, <<>>)
               ELSE Plain(c, "index", "ok", {"select"},
                          SelectEntriesDesc(keb, session[c].user_id))
    /\ UNCHANGED <<keb, keb_seq, users, users_seq, session,
                   solo, solo_seq, solo_id, replay, replay_seq>>

index(c) ==
    /\ resp' = IF ~LoggedIn(c)
               THEN Plain(c, "index", "redirect_login", {}, <<>>)
               ELSE Plain(c, "index", "ok", {"select"},
                          SelectEntriesDesc(keb, session[c].user_id))
    /\ UNCHANGED <<keb, keb_seq, users, users_seq, session,
                   solo, solo_seq, solo_id, replay, replay_seq>>

\* The answer of a chart handler given the rows selected and the projection.
ChartAnswer(c, op, rows, series) ==
    IF rows = <<>>
    THEN Plain(c, op, "no_data", {"select"}, <<>>)
    ELSE Plain(c, op, "ok", {"select"}, series)

plot_chart(c) ==
    /\ resp' = IF ~LoggedIn(c)
               THEN Plain(c, "plot_chart", "redirect_login", {}, <<>>)
               ELSE LET rows == SelectChartRows(keb, session[c].user_id)
                    IN  ChartAnswer(c, "plot_chart", rows, ItemChart(rows))
    /\ UNCHANGED <<keb, keb_seq, users, users_seq, session,
                   solo, solo_seq, solo_id, replay, replay_seq>>

plot_subscales(c) ==
    /\ resp' = IF ~LoggedIn(c)
               THEN Plain(c, "plot_subscales", "redirect_login", {}, <<>>)
               ELSE LET rows == SelectChartRows(keb, session[c].user_id)
                    IN  ChartAnswer(c, "plot_subscales", rows, SubscaleChart(rows))
    /\ UNCHANGED <<keb, keb_seq, users, users_seq, session,
                   solo, solo_seq, solo_id, replay, replay_seq>>

(***************************************************************************)
(* delete_entries                                                          *)
(***************************************************************************)
RECURSIVE IntText(_)
\* str(n) for n >= 0
IntText(n) ==
    IF n < 10 THEN <<Digits[n + 1]>>
    ELSE IntText(n \div 10) \o <<Digits[(n % 10) + 1]>>

\* The ids of the run without the other users that name the same entries as
\* ids names in keb: an id given to a row of the observed user maps to that row's
\* id in solo, any other id names no row there.
SameEntries(ids) ==
    {IntText(solo_id[IdOf(t)]) :
        t \in {x \in ids : IdOf(x) \in DOMAIN solo_id /\ solo_id[IdOf(x)] # 0}}

delete_entries(c, method, ids) ==
    IF ~LoggedIn(c)
    THEN /\ resp' = Plain(c, "delete", "redirect_login", {}, <<>>)
         /\ UNCHANGED <<keb, keb_seq, users, users_seq, session,
                        solo, solo_seq, solo_id, replay, replay_seq>>
    ELSE IF method = "POST"
    THEN LET uid == session[c].user_id
         IN  /\ keb' = DeleteRows(keb, ids, uid)
             /\ resp' = Response(c, "delete", "deleted",
                                 IF ids = {} THEN {} ELSE {"delete"},
                                 NoForm, <<>>, NoDeviation, <<>>, ids)
             /\ solo' = IF uid = Observed
                        THEN DeleteRows(solo, SameEntries(ids), uid) ELSE solo
             /\ replay' = IF uid = Observed
                          THEN DeleteRows(replay, ids, uid) ELSE replay
             /\ UNCHANGED <<keb_seq, users, users_seq, session,
                            solo_seq, solo_id, replay_seq>>
    ELSE /\ resp' = Plain(c, "delete", "form", {"select"},
                          SelectEntriesDesc(keb, session[c].user_id))
         /\ UNCHANGED <<keb, keb_seq, users, users_seq, session,
                        solo, solo_seq, solo_id, replay, replay_seq>>

(***************************************************************************)
(* login, register, logout                                                 *)
(***************************************************************************)
\* generate_password_hash / check_password_hash: a hash checks against the
\* password it was made from and no other.
generate_password_hash(password) == [hash_of |-> password]

check_password_hash(hash, password) == hash.hash_of = password

login(c, method, username, password) ==
    IF method = "GET"
    THEN /\ resp' = Plain(c, "login", "form", {}, <<>>)
         /\ UNCHANGED <<keb, keb_seq, users, users_seq, session,
                        solo, solo_seq, solo_id, replay, replay_seq>>
    ELSE LET found == {u \in users : u.username = Strip(username)}
         IN  /\ IF \E u \in found : check_password_hash(u.password, password)
                THEN LET user == CHOOSE u \in found : TRUE
                     IN  /\ session' = [session EXCEPT ![c] =
                                [user_id |-> user.id, username |-> user.username]]
                         /\ resp' = Plain(c, "login", "logged_in", {}, <<>>)
                ELSE /\ session' = session
                     /\ resp' = Plain(c, "login", "refused", {}, <<>>)
             /\ UNCHANGED <<keb, keb_seq, users, users_seq,
                            solo, solo_seq, solo_id, replay, replay_seq>>

register(c, method, username, password) ==
    IF method = "GET"
    THEN /\ resp' = Plain(c, "register", "form", {}, <<>>)
         /\ UNCHANGED <<keb, keb_seq, users, users_seq, session,
                        solo, solo_seq, solo_id, replay, replay_seq>>
    ELSE LET name == Strip(username)
         IN  /\ IF name = <<>> \/ password = <<>>
                THEN /\ resp' = Plain(c, "register", "missing", {}, <<>>)
                     /\ UNCHANGED <<users, users_seq>>
                ELSE IF \E u \in users : u.username = name
                THEN /\ resp' = Plain(c, "register", "taken", {}, <<>>)
                     /\ UNCHANGED <<users, users_seq>>
                ELSE /\ users' = users \cup
                            {[id |-> users_seq + 1, username |-> name,
                              password |-> generate_password_hash(password)]}
                     /\ users_seq' = users_seq + 1
                     /\ resp' = Plain(c, "register", "registered", {}, <<>>)
             /\ UNCHANGED <<keb, keb_seq, session,
                            solo, solo_seq, solo_id, replay, replay_seq>>

logout(c) ==
    /\ resp' = Plain(c, "logout", "logged_out", {}, <<>>)
    /\ session' = [session EXCEPT ![c] = EmptySession]
    /\ UNCHANGED <<keb, keb_seq, users, users_seq,
                   solo, solo_seq, solo_id, replay, replay_seq>>

(***************************************************************************)
(* Requests and their inputs                                               *)
(***************************************************************************)
Methods == {"GET", "POST"}

\* The form of an add request: a datum text and the eight item texts in the
\* order of Items.
MkForm(datum, it) ==
    [f \in ItemSet \cup {"datum"} |->
        IF f = "datum" THEN datum
        ELSE it[CHOOSE i \in 1..8 : Items[i] = f]]

Anna == <<"a">>
Ben  == <<"b">>
Pw   == <<"p">>
Typo == <<"q">>

\* Clock readings of datetime.now()
Morning == [h |-> 8, mi |-> 0, s |-> 0]
Noon    == [h |-> 12, mi |-> 30, s |-> 0]

\* Item texts: all recovered; mixed; a decimal; off the scale; all strained;
\* not a number.
ItHigh  == << <<"6">>, <<"6">>, <<"6">>, <<"6">>, <<"0">>, <<"0">>, <<"0">>, <<"0">> >>
ItMixed == << <<"4">>, <<"2">>, <<"6">>, <<"1">>, <<"2">>, <<"0">>, <<"3">>, <<"5">> >>
ItDec   == << <<"2", ".", "0", "0", "2">>, <<"2">>, <<"3">>, <<"6">>,
              <<"0">>, <<"0">>, <<"0">>, <<"6">> >>
ItOff   == << <<"7">>, <<"6">>, <<"6">>, <<"6">>, <<"0">>, <<"-", "1">>, <<"0">>, <<"0">> >>
ItLow   == << <<"1">>, <<"1">>, <<"1">>, <<"1">>, <<"5">>, <<"5">>, <<"5">>, <<"5">> >>
ItBad   == << <<"6">>, <<"6">>, <<"x">>, <<"6">>, <<"0">>, <<"0">>, <<"0">>, <<"0">> >>

\* "YYYY-MM-DD" and "YYYY-MM-DD HH:MM:SS" as a user types them in full
DateText(y, m, d) == StrfDate([y |-> y, m |-> m, d |-> d])

FullText(y, m, d, h, mi, s) ==
    DateText(y, m, d) \o <<" ">> \o StrfTime([h |-> h, mi |-> mi, s |-> s])

\* Datum texts in neither format: "2024-02-3 09:00:00", "01/01/2024",
\* "2024-03-05T09:00:00".
Feb3Short == <<"2", "0", "2", "4", "-", "0", "2", "-", "3", " ",
               "0", "9", ":", "0", "0", ":", "0", "0">>
Slashes   == <<"0", "1", "/", "0", "1", "/", "2", "0", "2", "4">>
WithT     == <<"2", "0", "2", "4", "-", "0", "3", "-", "0", "5", "T",
               "0", "9", ":", "0", "0", ":", "0", "0">>

Mar1 == FullText(2024, 3, 1, 9, 0, 0)
Mar5 == FullText(2024, 3, 5, 9, 0, 0)

(***************************************************************************)
(* Spec: two browsers, two users, every handler.  Browser 1 is Anna's and  *)
(* browser 2 is Ben's.                                                     *)
(***************************************************************************)
SpecForms == {MkForm(Mar1, ItHigh), MkForm(Mar5, ItMixed), MkForm(Slashes, ItHigh)}

SpecIds == { {<<"1">>}, {<<"2">>}, {<<"1">>, <<"2">>}, {<<"3">>, <<"x">>} }

NameAt(c) == IF c = 1 THEN Anna ELSE Ben

Next ==
    \E c \in Clients :
        \/ keb_seq < MaxEntries
           /\ \E form \in SpecForms : add_entry(c, "POST", form, Morning)
        \/ add_entry(c, "GET", NoForm, Morning)
        \/ index(c)
        \/ plot_chart(c)
        \/ plot_subscales(c)
        \/ \E ids \in SpecIds : delete_entries(c, "POST", ids)
        \/ delete_entries(c, "GET", {})
        \/ \E password \in {Pw, Typo} : login(c, "POST", NameAt(c), password)
        \/ login(c, "GET", <<>>, <<>>)
        \/ \E password \in {Pw, <<>>} : register(c, "POST", NameAt(c), password)
        \/ register(c, "GET", <<>>, <<>>)
        \/ logout(c)

Spec == Init /\ [][Next]_vars

(***************************************************************************)
(* SpecDate: one user; datum texts of every kind.                          *)
(***************************************************************************)
DateForms ==
    {MkForm(d, it) :
        d \in {FullText(2024, 2, 20, 9, 0, 0), Feb3Short, Mar5, DateText(2024, 3, 5)},
        it \in {ItHigh, ItLow}}
    \cup {MkForm(d, ItHigh) : d \in {FullText(2024, 2, 30, 9, 0, 0), Slashes, WithT}}
    \cup {MkForm(Mar5, ItBad), MkForm(Feb3Short, ItBad)}

NextDate ==
    \/ keb_seq < MaxEntriesDate
       /\ \E form \in DateForms, now \in {Morning, Noon} : add_entry(1, "POST", form, now)
    \/ plot_chart(1)
    \/ plot_subscales(1)
    \/ \E ids \in {{<<"1">>}, {<<"2">>, <<"x">>}} : delete_entries(1, "POST", ids)
    \/ \E password \in {Pw, Typo} : login(1, "POST", Anna, password)
    \/ register(1, "POST", Anna, Pw)

SpecDate == Init /\ [][NextDate]_vars

(***************************************************************************)
(* SpecDev: one user; datum texts in full, item values of every kind.      *)
(***************************************************************************)
DevForms ==
    {MkForm(d, it) : d \in {Mar1, Mar5}, it \in {ItHigh, ItMixed, ItDec, ItOff}}
    \cup {MkForm(Mar5, ItBad)}

NextDev ==
    \/ keb_seq < MaxEntriesDev
       /\ \E form \in DevForms : add_entry(1, "POST", form, Morning)
    \/ plot_subscales(1)
    \/ \E ids \in {{<<"1">>}, {<<"2">>, <<"x">>}} : delete_entries(1, "POST", ids)
    \/ \E password \in {Pw, Typo} : login(1, "POST", Anna, password)
    \/ register(1, "POST", Anna, Pw)

SpecDev == Init /\ [][NextDev]_vars

(***************************************************************************)
(* Properties                                                              *)
(***************************************************************************)
\* The pairing of the subscales: recovery item and strain item.
Recovery == <<"k_leistung", "m_leistung", "e_ausgeg", "a_erhol">>
Strain   == <<"musk_beans", "aktiv_mangel", "e_unausg", "a_beans">>

\* A value in thousandths (the inputs carry at most three decimals).
Milli(x) == (x.n * 1000) \div x.d

RECURSIVE SumSeq(_)
SumSeq(l) == IF l = <<>> THEN 0 ELSE Head(l) + SumSeq(Tail(l))

\* The last response is to an add that stored its row.
Stored == resp.op = "add" /\ resp.status = "stored"

\* The row an add just stored.
LastRow == CHOOSE r \in keb : r.id = keb_seq

Reported(i) == \E k \in 1..Len(resp.dev.messages) : resp.dev.messages[k].subscale = i

\* 2000 * n * (mean of subscale i over rows - today's subscale i), in integers:
\* the 6 of the formula cancels in the difference.
Decline(i, rows, v) ==
    SumSeq([j \in 1..Len(rows) |->
                Milli(rows[j].v[Recovery[i]]) - Milli(rows[j].v[Strain[i]])])
    - Len(rows) * (Milli(v[Recovery[i]]) - Milli(v[Strain[i]]))

\* C1: after an add with a non-empty baseline window, subscale i is reported
\* if and only if (mean of subscale i over the window) - (today's value) >= 2,
\* compared exactly.
C1_ThresholdExact ==
    (Stored /\ resp.dev.rows # <<>>) =>
        \A i \in 1..4 :
            Reported(i) <=>
                Decline(i, resp.dev.rows, LastRow.v) >= 4000 * Len(resp.dev.rows)

\* C1 witness: one subscale exactly 2 under its baseline is reported while
\* another, 1.999 under its baseline, is not.
C1_Witness ==
    /\ Stored /\ resp.dev.rows # <<>>
    /\ \E i, j \in 1..4 :
          /\ Decline(i, resp.dev.rows, LastRow.v) = 4000 * Len(resp.dev.rows)
          /\ Reported(i)
          /\ Decline(j, resp.dev.rows, LastRow.v) = 3998 * Len(resp.dev.rows)
          /\ ~Reported(j)

\* C5: an add stores exactly its one row, and what the analyzer reports after
\* the row is stored is what it reports on the table before the row is stored.
C5_OrderIndependent ==
    [][ keb_seq' # keb_seq =>
          \E row \in keb' :
              /\ row.id = keb_seq'
              /\ row \notin keb
              /\ keb' = keb \cup {row}
              /\ resp'.dev = check_negative_deviation(keb, row.user_id, row.datum, row.v)
      ]_vars

\* C5 witness: an add whose baseline window holds rows and that reports a
\* deviation.
C5_Witness == Stored /\ resp.dev.rows # <<>> /\ resp.dev.warning

InScale(x) == 0 <= x.n /\ x.n <= 6 * x.d

\* C10: for every stored row the chart's subscale values are the analyzer's,
\* both for a row of the baseline and for today's values; each is
\* (recovery + (6 - strain)) / 2 in the fixed pairing, and lies in [0, 6] when
\* the eight items do; and the subscale chart shows these values.
C10_SameSubscales ==
    /\ \A row \in keb :
          /\ ChartSubscales(row) = RowSubscales(row)
          /\ ChartSubscales(row) = TodaySubscales(row.v)
          /\ \A i \in 1..4 :
                /\ 2 * Milli(ChartSubscales(row)[i])
                      = Milli(row.v[Recovery[i]]) + (6000 - Milli(row.v[Strain[i]]))
                /\ (\A f \in ItemSet : InScale(row.v[f]))
                      => InScale(ChartSubscales(row)[i])
    /\ (resp.op = "plot_subscales" /\ resp.status = "ok") =>
          LET rows == SelectChartRows(keb, resp.user)
          IN  /\ Len(resp.view) = Len(rows)
              /\ \A j \in 1..Len(rows) : resp.view[j].values = RowSubscales(rows[j])

\* C10 witness: the subscale chart shows a row whose items are all on the scale
\* and one with an item off the scale.
C10_Witness ==
    /\ resp.op = "plot_subscales" /\ resp.status = "ok"
    /\ \E row \in keb : \A f \in ItemSet : InScale(row.v[f])
    /\ \E row \in keb : \E f \in ItemSet : ~InScale(row.v[f])

(***************************************************************************)
(* The date-time a stored datum denotes, and the window in time            *)
(***************************************************************************)
When(row) == strptime(row.datum)

Key(dt) == <<dt.y, dt.m, dt.d, dt.h, dt.mi, dt.s>>

RECURSIVE LexLess(_, _)
LexLess(a, b) ==
    IF a = <<>> THEN FALSE
    ELSE IF Head(a) # Head(b) THEN Head(a) < Head(b)
    ELSE LexLess(Tail(a), Tail(b))

\* dt1 is earlier than dt2
Earlier(dt1, dt2) == LexLess(Key(dt1), Key(dt2))

\* Midnight of the calendar date of dt, minus 7 days.
WindowStart(dt) ==
    LET d == MinusDays(DateOf(dt), 7)
    IN  [y |-> d.y, m |-> d.m, d |-> d.d, h |-> 0, mi |-> 0, s |-> 0]

\* The other rows of the row's user that lie in time in
\* [midnight of the row's date - 7 days, the row's date-time).
TimeWindow(row) ==
    {r \in keb : /\ r.user_id = row.user_id
                 /\ r.id # row.id
                 /\ ~Earlier(When(r), WindowStart(When(row)))
                 /\ Earlier(When(r), When(row))}

(***************************************************************************)
(* C2                                                                      *)
(***************************************************************************)
\* text is "YYYY-MM-DD" or "YYYY-MM-DD HH:MM:SS"
InFormat(text) ==
    /\ Len(text) \in {10, 19}
    /\ \A i \in 1..Len(text) :
          CASE i \in {5, 8}   -> text[i] = "-"
            [] i = 11         -> text[i] = " "
            [] i \in {14, 17} -> text[i] = ":"
            [] OTHER          -> IsDigit(text[i])

\* text is a decimal numeral
NumericText(text) ==
    /\ \E i \in 1..Len(text) : IsDigit(text[i])
    /\ \A i \in 1..Len(text) : IsDigit(text[i]) \/ text[i] = "." \/ (i = 1 /\ text[i] = "-")

\* C2: an add whose datum is in neither format or one of whose items is not
\* numeric is rejected; a rejected add runs no analysis and leaves table keb as
\* it was; an accepted add writes exactly one row, with the datum, the eight
\* values and the user's id.
C2_RejectedOrWhole ==
    [][ (resp'.op = "add" /\ resp'.status \in {"date_error", "value_error", "stored"}) =>
          /\ (\/ ~InFormat(Strip(resp'.form.datum))
              \/ \E f \in ItemSet : ~NumericText(resp'.form[f]))
                => resp'.status # "stored"
          /\ resp'.status # "stored" =>
                keb' = keb /\ keb_seq' = keb_seq /\ resp'.db = {}
                /\ resp'.dev = NoDeviation
          /\ resp'.status = "stored" =>
                \E row \in keb' :
                    /\ row \notin keb /\ keb' = keb \cup {row}
                    /\ row.user_id = resp'.user
                    /\ row.datum = resp'.datum
                    /\ \A f \in ItemSet : row.v[f] = float(resp'.form[f]).v
      ]_vars

(***************************************************************************)
(* C7, C8, C9                                                              *)
(***************************************************************************)
\* C7: an add with no other row of the user in the window in time reports no
\* deviation and flashes no warning.
C7_EmptyWindowSilent ==
    (Stored /\ TimeWindow(LastRow) = {}) =>
        resp.dev.messages = <<>> /\ ~resp.dev.warning

\* C8: both chart projections list the observations in non-decreasing order of
\* the date-times they denote.
C8_ChartsChronological ==
    (resp.op \in {"plot_chart", "plot_subscales"} /\ resp.status = "ok") =>
        \A j \in 1..(Len(resp.view) - 1) :
            ~Earlier(resp.view[j + 1].dt, resp.view[j].dt)

\* C9: the baseline of an add is taken over exactly the other rows of the user
\* in the window in time, and the deviations reported are those of the means
\* over these rows.
C9_WindowInTime ==
    Stored =>
        LET window == ById(TimeWindow(LastRow))
        IN  /\ resp.dev.rows = window
            /\ \A i \in 1..4 :
                  Reported(i) <=>
                      /\ window # <<>>
                      /\ Decline(i, window, LastRow.v) >= 4000 * Len(window)

(***************************************************************************)
(* C4, C6                                                                  *)
(***************************************************************************)
\* The id text t names the row r.
Names(t, r) == t = IntText(r.id)

\* C4: a delete by user U with a set of ids removes exactly the rows of U whose
\* id is in the set, leaves every other row as it is, raises no error for an id
\* that is not stored or is another user's, and sent again changes nothing.
C4_DeleteOwnOnly ==
    [][ (resp'.op = "delete" /\ resp'.status # "redirect_login"
            /\ resp'.status # "form") =>
          /\ resp'.status = "deleted"
          /\ keb' = {r \in keb :
                        ~(r.user_id = resp'.user /\ \E t \in resp'.ids : Names(t, r))}
          /\ DeleteRows(keb', resp'.ids, resp'.user) = keb'
      ]_vars

\* C4 witness: a delete that named a row of the user, now gone, and a row of
\* another user, still stored.
C4_Witness ==
    /\ resp.op = "delete" /\ resp.status = "deleted"
    /\ \E r \in keb : r.user_id # resp.user /\ IntText(r.id) \in resp.ids
    /\ \E i \in 1..keb_seq :
          /\ IntText(i) \in resp.ids
          /\ solo_id[i] # 0 /\ resp.user = Observed
          /\ ~\E r \in keb : r.id = i

DataOps == {"add", "index", "plot_chart", "plot_subscales", "delete"}

\* C6: a request for add, list, either chart, the delete form or a delete that
\* comes without user_id in its session is redirected to login, and runs no
\* statement on table keb; a logout leaves the session without user_id.
C6_NoSessionNoAccess ==
    [][ /\ (resp'.op \in DataOps /\ ~LoggedIn(resp'.client)) =>
              /\ resp'.status = "redirect_login"
              /\ resp'.db = {}
              /\ keb' = keb /\ keb_seq' = keb_seq
        /\ resp'.op = "logout" => "user_id" \notin DOMAIN session'[resp'.client]
      ]_vars

\* C6 witness: after a logout, with rows stored, an add is redirected to login.
C6_Witness ==
    /\ resp.op = "add" /\ resp.status = "redirect_login"
    /\ ~LoggedIn(resp.client)
    /\ \E r \in keb : \E u \in users :
          u.id = r.user_id /\ u.username = NameAt(resp.client)

(***************************************************************************)
(* C3                                                                      *)
(***************************************************************************)
\* The observed user's rows in keb.
Own == {r \in keb : r.user_id = Observed}

\* A row of the observed user under the id it has in the run without the others.
Renumbered(r) == [r EXCEPT !.id = solo_id[r.id]]

\* A row without its id.
Content(r) == [datum |-> r.datum, v |-> r.v, user_id |-> r.user_id]

\* C3 as amended: the observed user's rows, the list, the two charts and the
\* deviations of the user's add are, up to the ids of the rows, those of the run
\* without the other users in which each delete names the same entries.
C3_SameUpToIds ==
    /\ {Renumbered(r) : r \in Own} = solo
    /\ resp.user = Observed =>
          /\ (resp.op = "index" \/ (resp.op = "delete" /\ resp.status = "form")) =>
                /\ Len(resp.view) = Cardinality(solo)
                /\ \A j \in 1..Len(resp.view) :
                      Renumbered(resp.view[j]) = SelectEntriesDesc(solo, Observed)[j]
          /\ resp.op = "plot_chart" =>
                /\ resp.status = "no_data" <=> solo = {}
                /\ resp.view = ItemChart(SelectChartRows(solo, Observed))
          /\ resp.op = "plot_subscales" =>
                /\ resp.status = "no_data" <=> solo = {}
                /\ resp.view = SubscaleChart(SelectChartRows(solo, Observed))
          /\ Stored =>
                LET there == check_negative_deviation(
                                 solo, Observed, resp.datum, LastRow.v)
                IN  /\ resp.dev.messages = there.messages
                    /\ resp.dev.warning = there.warning
                    /\ Len(resp.dev.rows) = Len(there.rows)
                    /\ \A j \in 1..Len(there.rows) :
                          Renumbered(resp.dev.rows[j]) = there.rows[j]

\* C3 witness: the observed user's add is analyzed, without a deviation, while
\* another user's earlier row is stored that, as a baseline, would have one
\* subscale reported.
C3_Witness ==
    /\ Stored /\ resp.user = Observed /\ ~resp.dev.warning
    /\ \E r \in keb :
          /\ r.user_id # Observed
          /\ TextLess(r.datum, resp.datum)
          /\ \E i \in 1..4 : Decline(i, <<r>>, LastRow.v) >= 4000

\* C3 as stated: the observed user's rows hold what they hold in the run
\* without the other users in which the user's requests are replayed as sent.
C3_SameAsReplay == {Content(r) : r \in Own} = {Content(r) : r \in replay}

=============================================================================
